---- MODULE Spec2Model ----
(***************************************************************************)
(* A model of the mod-loader (SML) version cache and installer             *)
(* (src/unnamed/part_000) and of the Steam-flatpak install finder          *)
(* (src/src/installfinders/linux/steamFlatpak.ts).                         *)
(*                                                                         *)
(* Strings are sequences of tokens.  A version string is a sequence of     *)
(* one-character strings; a launch-options string is a sequence of the     *)
(* tokens listed with LaunchOptionsPatch below.                            *)
(***************************************************************************)
EXTENDS Integers, Sequences, FiniteSets, TLC

VARIABLES
  cache,     \* smlCacheDir: normalized version -> its directory and two files
  game,      \* the game directory: the loaders directory and the two artifacts
  task,      \* per caller: the async call in progress and where it is suspended
  ret,       \* the call that returned in the last step (NoReturn if none did)
  resolved,  \* history: the cache keys some getSMLVersionCache call returned
  patchIn,   \* a launch-options value
  patchRuns, \* the results of patching it, then patching the result, ...
  config,    \* per Steam user: the content of config/localconfig.vdf
  running,   \* whether Steam is running
  setup,     \* the setupSteam call in progress, or the last one made
  library,   \* the Steam data location: steamapps, libraryfolders.vdf, the roots
  find       \* the getInstalls call in progress, or the last one made

smlVars == <<cache, game, task, ret, resolved>>
patchVars == <<patchIn, patchRuns>>
steamVars == <<config, running, setup>>
findVars == <<library, find>>
vars ==
  <<cache, game, task, ret, resolved, patchIn, patchRuns, config, running, setup,
    library, find>>

----------------------------------------------------------------------------
(* Bounds *)

NumCallers == 2       \* concurrent callers of the installer
Procs == 1..NumCallers
MaxTokens == 4        \* launch options: arbitrary token strings up to this length
MaxBlockTokens == 5   \* launch options: override blocks up to this length
MaxApplications == 2  \* how often the patch is applied to its own result
NumUsers == 2         \* Steam user profiles under userdata
Users == 1..NumUsers
MaxFolders == 2       \* numbered entries of libraryfolders.vdf

----------------------------------------------------------------------------
(* semver: valid(coerce(version)), part_000 line 30 *)

Digit == {"0", "1", "2"}
Null == <<"null">>      \* null / undefined
Absent == <<"absent">>  \* a file that does not exist

\* The version strings callers pass.
Versions ==
  { <<"v">>,
    <<"0", "1">>,
    <<"1">>,
    <<"1", ".", "0", ".", "0">>,
    <<"1", ".", "0", ".", "0", "-", "p">>,
    <<"2", ".", "1">> }

\* The version strings the metadata source has a release for.
Released ==
  { <<"1", ".", "0", ".", "0">>,
    <<"1", ".", "0", ".", "0", "-", "p">> }

FirstDigit(s) ==
  IF \E i \in 1..Len(s) : s[i] \in Digit
  THEN CHOOSE i \in 1..Len(s) : s[i] \in Digit /\ \A k \in 1..(i - 1) : s[k] \notin Digit
  ELSE 0

\* The last index of the digit run that starts at i.
RunEnd(s, i) ==
  CHOOSE j \in i..Len(s) :
    /\ \A k \in i..j : s[k] \in Digit
    /\ j = Len(s) \/ s[j + 1] \notin Digit

\* A numeric identifier of a strict version: 0, or digits with no leading zero.
NumericIdentifier(c) == c = <<"0">> \/ c[1] # "0"

\* coerce: the first digit run, then up to two more ".digits" groups; missing
\* groups are "0"; everything around them is dropped.  The result is parsed
\* strictly, so a leading zero gives null.
coerce(s) ==
  LET i == FirstDigit(s) IN
  IF i = 0 THEN Null
  ELSE
    LET j1 == RunEnd(s, i)
        has2 == j1 + 2 <= Len(s) /\ s[j1 + 1] = "." /\ s[j1 + 2] \in Digit
        j2 == IF has2 THEN RunEnd(s, j1 + 2) ELSE j1
        has3 == has2 /\ j2 + 2 <= Len(s) /\ s[j2 + 1] = "." /\ s[j2 + 2] \in Digit
        j3 == IF has3 THEN RunEnd(s, j2 + 2) ELSE j2
        major == SubSeq(s, i, j1)
        minor == IF has2 THEN SubSeq(s, j1 + 2, j2) ELSE <<"0">>
        patch == IF has3 THEN SubSeq(s, j2 + 2, j3) ELSE <<"0">>
    IN IF NumericIdentifier(major) /\ NumericIdentifier(minor) /\ NumericIdentifier(patch)
       THEN major \o <<".">> \o minor \o <<".">> \o patch
       ELSE Null

\* valid: the version of what coerce parsed, null for null.
valid(x) == x

\* (variant: a string that does not coerce is taken for 1.0.0 instead of null)
validVersionSkipped(version) ==
  IF coerce(version) = Null THEN <<"1", ".", "0", ".", "0">> ELSE coerce(version)

validVersion(version) == valid(coerce(version))

\* validVersion for each version string callers pass, computed once.
validVersionOf == [version \in Versions |-> validVersion(version)]

CacheKeys == {validVersionOf[v] : v \in Versions} \ {Null}

----------------------------------------------------------------------------
(* Results of a call *)

Ok(dir) == [kind |-> "ok", dir |-> dir, component |-> "", version |-> <<>>]
ModNotFoundError(component, version) ==
  [kind |-> "ModNotFoundError", dir |-> Null, component |-> component, version |-> version]
Thrown(kind) == [kind |-> kind, dir |-> Null, component |-> "", version |-> <<>>]

IdleTask ==
  [pc |-> "idle", op |-> "none", version |-> <<>>, hasPak |-> TRUE,
   looked |-> FALSE, dl |-> {}, got |-> {}, after |-> FALSE]

NoReturn ==
  [op |-> "none", version |-> <<>>, result |-> Thrown("none"),
   looked |-> FALSE, dl |-> {}, got |-> {}, after |-> FALSE,
   copied |-> {}, removed |-> {}, installedBefore |-> FALSE, afterInstall |-> FALSE]

\* The record of a call of task t that returns or throws res.
Returned(t, res) ==
  [NoReturn EXCEPT !.op = t.op, !.version = t.version, !.result = res,
                   !.looked = t.looked, !.dl = t.dl, !.got = t.got, !.after = t.after]

----------------------------------------------------------------------------
(* part_000 *)

\* lines 15-16: the names of the two artifacts, in a cache directory and in
\* the loaders directory of the game
SMLDLLFileName == "dll"
SMLPakFileName == "pak"

\* getSMLVersion, lines 21-23: the version embedded in the DLL of the game
\* directory, undefined when there is no DLL.
getSMLVersion(g) == g[SMLDLLFileName]

\* lines 58 and 74: the test of getSMLVersion(satisfactoryPath)
\* (variant: no version is ever found)
IsInstalledNever(g) == FALSE
IsInstalled(g) == getSMLVersion(g) # Absent

\* line 37: fs.existsSync(smlVersionCacheDir)
\* (variant: the directory is never found)
IsCachedNever(n) == FALSE
IsCached(n) == cache[n].dir

\* fs.existsSync(file) on a file of the game directory or of a cache
\* directory, lines 64, 79 and 82
\* (variant: every file is taken to exist)
ExistsSyncAlways(d, file) == TRUE
ExistsSync(d, file) == d[file] # Absent

\* lines 46-52: a failed pak download is caught (hasPak = false), a failed
\* DLL download is not
\* (variant: a failed DLL download is caught as well)
IsFatalNever(file) == FALSE
IsFatal(file) == file = SMLDLLFileName

\* downloadFile(url, file): the file is written (its directory created) when
\* the download succeeds; nothing is written when it fails.
Downloaded(c, n, file, release) ==
  [c EXCEPT ![n] = [@ EXCEPT !.dir = TRUE, ![file] = release]]

\* getSMLVersionCache up to its first await, lines 30-39, for a call of
\* operation op (getSMLVersionCache itself, or installSML at line 60).
EnterVersionCache(p, op, version) ==
  LET n == validVersionOf[version]
      t == [IdleTask EXCEPT !.op = op, !.version = version,
                            !.after = (n # Null /\ n \in resolved)]
  IN
  IF n = Null
  THEN \* lines 31-33
       /\ ret' = Returned(t, ModNotFoundError("SML", version))
       /\ UNCHANGED <<cache, game, task, resolved>>
  ELSE IF IsCached(n)
  THEN \* line 54, a cache hit
       /\ resolved' = resolved \cup {n}
       /\ IF op = "install"
          THEN /\ task' = [task EXCEPT ![p] = [t EXCEPT !.pc = "awaitCache"]]
               /\ ret' = NoReturn
          ELSE /\ ret' = Returned(t, Ok(n))
               /\ UNCHANGED task
       /\ UNCHANGED <<cache, game>>
  ELSE \* line 39: await getSMLVersionInfo(version)
       /\ task' = [task EXCEPT ![p] = [t EXCEPT !.pc = "awaitInfo", !.looked = TRUE]]
       /\ ret' = NoReturn
       /\ UNCHANGED <<cache, game, resolved>>

\* A call of getSMLVersionCache(version), lines 29-39.
CallGetSMLVersionCache(p, version) ==
  /\ task[p].pc = "idle"
  /\ EnterVersionCache(p, "resolve", version)

\* A call of installSML(version, satisfactoryPath), lines 57-60 and 67-69.
CallInstallSML(p, version) ==
  /\ task[p].pc = "idle"
  /\ IF ~IsInstalled(game)
     THEN EnterVersionCache(p, "install", version)
     ELSE \* line 68: SML is already installed
          /\ ret' = [Returned([IdleTask EXCEPT !.op = "install", !.version = version],
                              Ok(Null)) EXCEPT !.installedBefore = TRUE]
          /\ UNCHANGED <<cache, game, task, resolved>>

\* getSMLVersionInfo(version) settles, lines 39-47: a link, no release, or a
\* failed request.
VersionInfoReturns(p) ==
  /\ task[p].pc = "awaitInfo"
  /\ \E failed \in BOOLEAN :
       IF failed
       THEN /\ ret' = Returned(task[p], Thrown("RequestError"))
            /\ task' = [task EXCEPT ![p] = IdleTask]
       ELSE IF task[p].version \notin Released
       THEN \* lines 40-42
            /\ ret' = Returned(task[p], ModNotFoundError("SML", task[p].version))
            /\ task' = [task EXCEPT ![p] = IdleTask]
       ELSE \* line 47: the pak download starts
            /\ task' = [task EXCEPT ![p] = [@ EXCEPT !.pc = "awaitPak", !.dl = {SMLPakFileName}]]
            /\ ret' = NoReturn
  /\ UNCHANGED <<cache, game, resolved>>

\* The pak download settles, lines 46-52; the DLL download starts.
PakDownloadReturns(p) ==
  /\ task[p].pc = "awaitPak"
  /\ \E ok \in BOOLEAN :
       LET n == validVersionOf[task[p].version] IN
       IF ok \/ ~IsFatal(SMLPakFileName)
       THEN /\ cache' = IF ok THEN Downloaded(cache, n, SMLPakFileName, task[p].version)
                             ELSE cache
            /\ task' = [task EXCEPT ![p] = [@ EXCEPT !.pc = "awaitDLL", !.hasPak = ok,
                                                     !.dl = @ \cup {SMLDLLFileName},
                                                     !.got = IF ok THEN {SMLPakFileName} ELSE {}]]
            /\ ret' = NoReturn
       ELSE /\ ret' = Returned(task[p], Thrown("DownloadError"))
            /\ task' = [task EXCEPT ![p] = IdleTask]
            /\ UNCHANGED cache
  /\ UNCHANGED <<game, resolved>>

\* The DLL download settles, lines 52-54.
DLLDownloadReturns(p) ==
  /\ task[p].pc = "awaitDLL"
  /\ \E ok \in BOOLEAN :
       LET n == validVersionOf[task[p].version]
           t == [task[p] EXCEPT !.got = IF ok THEN @ \cup {SMLDLLFileName} ELSE @]
       IN
       IF ok \/ ~IsFatal(SMLDLLFileName)
       THEN /\ cache' = IF ok THEN Downloaded(cache, n, SMLDLLFileName, task[p].version)
                             ELSE cache
            /\ resolved' = resolved \cup {n}
            /\ IF t.op = "install"
               THEN /\ task' = [task EXCEPT ![p] = [t EXCEPT !.pc = "awaitCache"]]
                    /\ ret' = NoReturn
               ELSE /\ task' = [task EXCEPT ![p] = IdleTask]
                    /\ ret' = Returned(t, Ok(n))
       ELSE /\ ret' = Returned(t, Thrown("DownloadError"))
            /\ task' = [task EXCEPT ![p] = IdleTask]
            /\ UNCHANGED <<cache, resolved>>
  /\ UNCHANGED game

\* fs.copyFileSync(cache file, game file), lines 63 and 65
\* (variant: the source is always the pak)
CopyFileSyncFromPak(g, c, file) == [g EXCEPT ![file] = c[SMLPakFileName]]
CopyFileSync(g, c, file) == [g EXCEPT ![file] = c[file]]

\* fs.unlinkSync(game file), lines 80 and 83
\* (variant: the file stays)
UnlinkSyncKeeps(g, file) == g
\* (variant: the file deleted is always the pak)
UnlinkSyncPak(g, file) == [g EXCEPT ![SMLPakFileName] = Absent]
UnlinkSync(g, file) == [g EXCEPT ![file] = Absent]

\* installSML after its await, lines 60-66; io is the outcome of the copies:
\* the DLL copy throws when the cache has no DLL or on an I/O error, the pak
\* copy on an I/O error.
InstallSMLResumes(p) ==
  /\ task[p].pc = "awaitCache"
  /\ \E io \in {"ok", "dllCopyFails", "pakCopyFails"} :
       LET c == cache[validVersionOf[task[p].version]]
           g0 == [game EXCEPT !.loaders = TRUE]               \* lines 61-62
           dllCopied == c[SMLDLLFileName] # Absent /\ io # "dllCopyFails"  \* line 63
           g1 == IF dllCopied THEN CopyFileSync(g0, c, SMLDLLFileName) ELSE g0
           pakTried == dllCopied /\ ExistsSync(c, SMLPakFileName)  \* line 64
           pakCopied == pakTried /\ c[SMLPakFileName] # Absent /\ io # "pakCopyFails"
           g2 == IF pakCopied THEN CopyFileSync(g1, c, SMLPakFileName) ELSE g1
       IN
       /\ io = "pakCopyFails" => pakTried
       /\ game' = g2
       /\ ret' = [Returned(task[p],
                           IF dllCopied /\ (pakTried => pakCopied)
                           THEN Ok(Null) ELSE Thrown("CopyError"))
                  EXCEPT !.copied = (IF dllCopied THEN {SMLDLLFileName} ELSE {})
                                    \cup (IF pakCopied THEN {SMLPakFileName} ELSE {})]
  /\ task' = [task EXCEPT ![p] = IdleTask]
  /\ UNCHANGED <<cache, resolved>>

\* uninstallSML(satisfactoryPath), lines 72-85; io is the outcome of the
\* deletions.  The function has no await: it runs in one step.
UninstallSML(p) ==
  /\ task[p].pc = "idle"
  /\ \E io \in {"ok", "dllUnlinkFails", "pakUnlinkFails"} :
       LET t == [IdleTask EXCEPT !.op = "uninstall"]
           afterInstall == ret.op = "install" /\ ret.result.kind = "ok"
           dllTried == ExistsSync(game, SMLDLLFileName)          \* line 79
           dllRemoved == dllTried /\ game[SMLDLLFileName] # Absent /\ io # "dllUnlinkFails"
           g1 == IF dllRemoved THEN UnlinkSync(game, SMLDLLFileName) ELSE game
           pakTried == (dllTried => dllRemoved) /\ ExistsSync(game, SMLPakFileName)  \* line 82
           pakRemoved == pakTried /\ game[SMLPakFileName] # Absent /\ io # "pakUnlinkFails"
           g2 == IF pakRemoved THEN UnlinkSync(g1, SMLPakFileName) ELSE g1
       IN
       IF ~IsInstalled(game)
       THEN \* lines 74-77
            /\ io = "ok"
            /\ ret' = [Returned(t, Ok(Null)) EXCEPT !.afterInstall = afterInstall]
            /\ UNCHANGED game
       ELSE /\ io = "pakUnlinkFails" => pakTried
            /\ game' = g2
            /\ ret' = [Returned(t, IF (dllTried => dllRemoved) /\ (pakTried => pakRemoved)
                                   THEN Ok(Null) ELSE Thrown("UnlinkError"))
                       EXCEPT !.afterInstall = afterInstall,
                              !.installedBefore = TRUE,
                              !.removed = (IF dllRemoved THEN {SMLDLLFileName} ELSE {})
                                          \cup (IF pakRemoved THEN {SMLPakFileName} ELSE {})]
  /\ UNCHANGED <<cache, task, resolved>>

\* The installer leaves the launch options and Steam's files alone.
SMLOnly == UNCHANGED <<patchVars, steamVars, findVars>>

NextSML ==
  \/ \E p \in Procs, version \in Versions : CallGetSMLVersionCache(p, version) /\ SMLOnly
  \/ \E p \in Procs, version \in Versions : CallInstallSML(p, version) /\ SMLOnly
  \/ \E p \in Procs : VersionInfoReturns(p) /\ SMLOnly
  \/ \E p \in Procs : PakDownloadReturns(p) /\ SMLOnly
  \/ \E p \in Procs : DLLDownloadReturns(p) /\ SMLOnly
  \/ \E p \in Procs : InstallSMLResumes(p) /\ SMLOnly
  \/ \E p \in Procs : UninstallSML(p) /\ SMLOnly

\* Calls that do not overlap: a call starts only when no call is in progress.
NoCallInProgress == \A p \in Procs : task[p].pc = "idle"

NextSeq ==
  \/ \E p \in Procs, version \in Versions :
       NoCallInProgress /\ CallGetSMLVersionCache(p, version) /\ SMLOnly
  \/ \E p \in Procs, version \in Versions :
       NoCallInProgress /\ CallInstallSML(p, version) /\ SMLOnly
  \/ \E p \in Procs : VersionInfoReturns(p) /\ SMLOnly
  \/ \E p \in Procs : PakDownloadReturns(p) /\ SMLOnly
  \/ \E p \in Procs : DLLDownloadReturns(p) /\ SMLOnly
  \/ \E p \in Procs : InstallSMLResumes(p) /\ SMLOnly
  \/ \E p \in Procs : NoCallInProgress /\ UninstallSML(p) /\ SMLOnly

----------------------------------------------------------------------------
(* steamFlatpak.ts: the launch-options patch of setupSteam, lines 71-94 *)

(* A launch-options string is a sequence of these tokens:                  *)
(*   "E"  WINEDLLOVERRIDES=          "Q"  \" (an escaped quote)            *)
(*   "R"  msdia140.dll,xinput1_3.dll=n,b                                   *)
(*   ";"  the separator of sub-values    "$"  a dollar sign                *)
(*   " "  a space                        "%command%"                       *)
(*   "x"  any other text, without a dollar sign and not starting with a    *)
(*        character that forms a replacement pattern after one             *)
Tokens == {"E", "Q", "R", ";", "x", "$", " ", "%command%"}
BlockTokens == {"R", ";", "x", "$"}

SeqsUpTo(S, n) == UNION {[1..k -> S] : k \in 0..n}

\* String.prototype.indexOf(pat), 1-based; 0 when pat does not occur.
IndexOf(s, pat) ==
  LET at == {i \in 1..(Len(s) - Len(pat) + 1) : SubSeq(s, i, i + Len(pat) - 1) = pat}
  IN IF at = {} THEN 0 ELSE CHOOSE i \in at : \A k \in at : i <= k

\* String.prototype.includes(pat)
Includes(s, pat) == IndexOf(s, pat) # 0

\* GetSubstitution of String.prototype.replace: the replacement string is
\* scanned for patterns that start with a dollar sign; of these the tokens
\* can form '$$', which stands for one dollar sign.
RECURSIVE GetSubstitution(_)
GetSubstitution(rep) ==
  IF rep = <<>> THEN <<>>
  ELSE IF Len(rep) >= 2 /\ rep[1] = "$" /\ rep[2] = "$"
  THEN <<"$">> \o GetSubstitution(SubSeq(rep, 3, Len(rep)))
  ELSE <<rep[1]>> \o GetSubstitution(Tail(rep))

\* String.prototype.replace(pat, rep) with a string pattern and a string
\* replacement: the first occurrence only.
Replace(s, pat, rep) ==
  LET i == IndexOf(s, pat) IN
  IF i = 0 THEN s
  ELSE SubSeq(s, 1, i - 1) \o GetSubstitution(rep) \o SubSeq(s, i + Len(pat), Len(s))

Required == <<"R">>                          \* 'msdia140.dll,xinput1_3.dll=n,b'
RequiredTwice == <<"R", ";", "R">>           \* line 82
Opening == <<"E", "Q">>                      \* WINEDLLOVERRIDES=\"

\* /WINEDLLOVERRIDES=\\"(.*?)\\"/g .exec(s), line 74: the leftmost
\* WINEDLLOVERRIDES=\" and the shortest text up to the next \".  The result
\* is null, or the match ([0]) and its group ([1]).
NoMatch == [found |-> FALSE, all |-> <<>>, group |-> <<>>]
ExecWineDllOverrides(s) ==
  LET starts == {i \in 1..(Len(s) - 2) :
                   /\ SubSeq(s, i, i + 1) = Opening
                   /\ \E j \in (i + 2)..Len(s) : s[j] = "Q"}
  IN IF starts = {} THEN NoMatch
     ELSE LET i == CHOOSE a \in starts : \A b \in starts : a <= b
              j == CHOOSE a \in (i + 2)..Len(s) :
                     s[a] = "Q" /\ \A b \in (i + 2)..(a - 1) : s[b] # "Q"
          IN [found |-> TRUE, all |-> SubSeq(s, i, j), group |-> SubSeq(s, i + 2, j - 1)]

\* lines 83-86: the loop that removes ';R' while 'R;R' occurs
RECURSIVE Deduplicated(_)
Deduplicated(d) ==
  IF Includes(d, RequiredTwice)
  THEN Deduplicated(Replace(d, <<";">> \o Required, <<>>))
  ELSE d

\* line 73: if (launchOptions)
Truthy(launchOptions) == launchOptions # Absent /\ launchOptions # <<>>

\* line 78: the block lacks the required sub-value
LacksRequired(group) == ~Includes(group, Required)

\* line 82: the required sub-value is duplicated
\* (variant: every block counts as duplicated)
IsDuplicatedAlways(group) == TRUE
IsDuplicated(group) == Includes(group, RequiredTwice)

\* lines 72-94: the new launch options and whether they count as changed
LaunchOptionsPatch(launchOptions) ==
  IF Truthy(launchOptions)
  THEN LET wineDllOverrides == ExecWineDllOverrides(launchOptions) IN
       IF ~wineDllOverrides.found
       THEN [launchOptions |-> Opening \o Required \o <<"Q", " ">> \o launchOptions,
             changed |-> TRUE]
       ELSE IF LacksRequired(wineDllOverrides.group)
       THEN [launchOptions |->
               Replace(launchOptions, wineDllOverrides.all,
                       Opening \o wineDllOverrides.group \o <<";">> \o Required \o <<"Q">>),
             changed |-> TRUE]
       ELSE IF IsDuplicated(wineDllOverrides.group)
       THEN [launchOptions |->
               Replace(launchOptions, wineDllOverrides.all,
                       Opening \o Deduplicated(wineDllOverrides.group)
                               \o <<";">> \o Required \o <<"Q">>),
             changed |-> TRUE]
       ELSE [launchOptions |-> launchOptions, changed |-> FALSE]
  ELSE [launchOptions |-> Opening \o Required \o <<"Q", " ", "%command%">>,
        changed |-> TRUE]

\* The launch-options values the patch is applied to: no value, every token
\* string up to MaxTokens, and every override block up to MaxBlockTokens
\* with and without text around it.
Around == { <<<<>>, <<>>>>, <<<<>>, <<" ", "%command%">>>>,
            <<<<"x", " ">>, <<>>>>, <<<<"x", " ">>, <<" ", "%command%">>>> }
LaunchOptionsInputs ==
  {Absent}
    \cup SeqsUpTo(Tokens, MaxTokens)
    \cup {a[1] \o Opening \o b \o <<"Q">> \o a[2] :
            a \in Around, b \in SeqsUpTo(BlockTokens, MaxBlockTokens)}

\* The value the next application of the patch reads.
PatchCurrent ==
  IF patchRuns = <<>> THEN patchIn ELSE patchRuns[Len(patchRuns)].launchOptions

\* One application of the patch to the value at hand.
ApplyPatch ==
  /\ Len(patchRuns) < MaxApplications
  /\ patchRuns' = Append(patchRuns, LaunchOptionsPatch(PatchCurrent))
  /\ UNCHANGED patchIn

----------------------------------------------------------------------------
(* steamFlatpak.ts: setupSteam, lines 59-110 *)

\* The launch options of the profiles setupSteam runs on: one of each kind.
ProfileLaunchOptions ==
  { Absent,
    <<>>,
    <<"%command%">>,
    <<"E", "Q", "x", "Q", " ", "%command%">>,
    <<"E", "Q", "R", "Q", " ", "%command%">>,
    <<"E", "Q", "x", ";", "R", "Q", " ", "%command%">>,
    <<"E", "Q", "R", ";", "R", "Q", " ", "%command%">>,
    <<"E", "Q", "x", ";", "R", ";", "R", ";", "R", "Q">> }

\* A profile's localconfig.vdf: unreadable or not VDF ("malformed"), without
\* an apps and an Apps key ("noApps"), without the game under that key
\* ("noGame"), or with the game's entry under apps, under Apps, or under both.
ProfileConfigs ==
  [kind : {"malformed", "noApps", "noGame"}, launchOptions : {Absent}]
    \cup [kind : {"apps", "Apps"}, launchOptions : ProfileLaunchOptions]

\* after: the call was made when the call before it had returned normally.
IdleSetup ==
  [pc |-> "idle", user |-> 0, launchOptions |-> Absent, result |-> "none",
   logged |-> {}, checked |-> {}, wrote |-> {}, after |-> FALSE]

\* forEachAsync, line 60: the callback is awaited for one profile after the
\* other; after the last one setupSteam returns.
NextProfile(s) ==
  IF s.user < NumUsers
  THEN [s EXCEPT !.pc = "profile", !.user = @ + 1, !.launchOptions = Absent]
  ELSE [s EXCEPT !.pc = "idle", !.launchOptions = Absent, !.result = "ok"]

\* A call of setupSteam(), line 60.
CallSetupSteam ==
  /\ setup.pc = "idle"
  /\ setup' = [IdleSetup EXCEPT !.pc = "profile", !.user = 1,
                                !.after = (setup.result = "ok")]
  /\ UNCHANGED <<config, running>>

\* lines 103-108: an error caught in the callback is thrown again when it is
\* a SetupError, and logged otherwise
\* (variant: every error is thrown again)
RethrownAlways(e) == TRUE
Rethrown(e) == e = "SetupError"

\* An error e leaves the callback: thrown again, it leaves forEachAsync and
\* setupSteam; logged, the callback returns.
Caught(s, e) ==
  IF Rethrown(e)
  THEN [s EXCEPT !.pc = "idle", !.launchOptions = Absent, !.result = e]
  ELSE NextProfile([s EXCEPT !.logged = @ \cup {s.user}])

\* lines 96-97: the liveness check is made for a changed value only
NeedsWrite(patched) == patched.changed

\* The callback for one profile up to its await, lines 61-97 and 103-108.
ProcessProfile ==
  /\ setup.pc = "profile"
  /\ LET u == setup.user
         c == config[u]
     IN
     IF c.kind = "noApps"
     THEN \* lines 64-67: error(...) and return
          setup' = NextProfile([setup EXCEPT !.logged = @ \cup {u}])
     ELSE IF c.kind = "malformed"
     THEN \* line 63 throws
          setup' = Caught(setup, "ParseError")
     ELSE IF c.kind = "noGame"
     THEN \* line 71 throws
          setup' = Caught(setup, "TypeError")
     ELSE LET patched == LaunchOptionsPatch(c.launchOptions) IN
          IF NeedsWrite(patched)
          THEN \* line 97: await isRunning('steam')
               setup' = [setup EXCEPT !.pc = "awaitIsRunning",
                                      !.launchOptions = patched.launchOptions,
                                      !.checked = @ \cup {u}]
          ELSE setup' = NextProfile(setup)
  /\ UNCHANGED <<config, running>>

\* lines 97-99: the guard
\* (variant: the result of the check is ignored)
GuardNever(isRunning) == FALSE
Guard(isRunning) == isRunning

\* isRunning('steam') settles, lines 97-102.
IsRunningReturns ==
  /\ setup.pc = "awaitIsRunning"
  /\ LET u == setup.user IN
     IF Guard(running)
     THEN \* line 98: throw new SetupError
          /\ setup' = Caught(setup, "SetupError")
          /\ UNCHANGED config
     ELSE \* lines 100-101; a config read under Apps is dumped with both keys
          /\ config' = [config EXCEPT ![u] =
                          [kind |-> IF @.kind = "Apps" THEN "both" ELSE @.kind,
                           launchOptions |-> setup.launchOptions]]
          /\ setup' = NextProfile([setup EXCEPT !.wrote = @ \cup {u}])
  /\ UNCHANGED running

\* Steam is started or closed.
SteamStarts == ~running /\ running' = TRUE /\ UNCHANGED <<config, setup>>
SteamCloses == running /\ running' = FALSE /\ UNCHANGED <<config, setup>>

----------------------------------------------------------------------------
(* steamFlatpak.ts: getInstalls, lines 112-154 *)

\* line 57, and the library roots libraryfolders.vdf can list
STEAM_DATA_LOCATION == "steam"
Roots == {STEAM_DATA_LOCATION, "lib1", "lib2"}

\* What a library root holds: steamapps/appmanifest_526870.acf is missing,
\* does not parse, parses without an AppState or parses with one; and whether
\* the game executable is in the install directory.
RootStates ==
  [manifest : {"AppState"}, exe : BOOLEAN]
    \cup [manifest : {"none", "corrupt", "noAppState"}, exe : {FALSE}]
    \cup {[manifest |-> "none", exe |-> TRUE]}

\* The Steam data location: whether steamapps exists, whether
\* libraryfolders.vdf parses, its numbered entries in order, and the roots.
Libraries ==
  [steamApps : {"missing", "corrupt", "ok"},
   folders : SeqsUpTo(Roots, MaxFolders),
   roots : [Roots -> RootStates]]

EmptyLibrary ==
  [steamApps |-> "missing", folders |-> <<>>,
   roots |-> [r \in Roots |-> [manifest |-> "none", exe |-> FALSE]]]

\* line 129: path.join(libraryFolder, 'steamapps', 'common', installdir)
fullInstallPath(libraryFolder) == <<libraryFolder, "steamapps", "common", "Satisfactory">>

\* line 123: fs.existsSync(sfManifestPath)
ManifestExists(root) == root.manifest # "none"

\* line 131: fs.existsSync(gameExe)
\* (variant: the executable is always found)
GameExeExistsAlways(root) == TRUE
GameExeExists(root) == root.exe

\* lines 122-135: a probe up to its first await.  It returns (the promise is
\* resolved), throws (rejected), or awaits getGameVersionFromExe (pending).
ProbeStart(root) ==
  IF ~ManifestExists(root) THEN "resolved"
  ELSE IF root.manifest = "corrupt" THEN "rejected"          \* line 124 throws
  ELSE IF root.manifest = "noAppState" THEN "resolved"       \* lines 125-128
  ELSE IF ~GameExeExists(root) THEN "resolved"               \* lines 131-134
  ELSE "pending"                                             \* line 135

\* line 132: the probe pushes its install path to invalidInstalls
PushesInvalid(root) ==
  ManifestExists(root) /\ root.manifest = "AppState" /\ ~GameExeExists(root)

\* line 121: libraryfolders.map runs every probe up to its first await, in
\* order; these are the invalidInstalls pushed meanwhile.
RECURSIVE InvalidAfterMap(_, _)
InvalidAfterMap(libraryfolders, roots) ==
  IF libraryfolders = <<>> THEN <<>>
  ELSE (IF PushesInvalid(roots[Head(libraryfolders)])
        THEN <<fullInstallPath(Head(libraryfolders))>> ELSE <<>>)
       \o InvalidAfterMap(Tail(libraryfolders), roots)

\* probes: the promise of each probe; pendingAtReturn: the probes still
\* awaiting when getInstalls returned; result: the two lists as they were
\* when getInstalls returned.
IdleFind ==
  [pc |-> "idle", libraryfolders |-> <<>>, probes |-> <<>>,
   installs |-> <<>>, invalidInstalls |-> <<>>, logged |-> FALSE,
   result |-> [installs |-> <<>>, invalidInstalls |-> <<>>],
   pendingAtReturn |-> {}]

\* lines 152-153: exiftool.end() and return { installs, invalidInstalls }
ReturnInstalls(f) ==
  [f EXCEPT !.pc = "done",
            !.result = [installs |-> f.installs, invalidInstalls |-> f.invalidInstalls],
            !.pendingAtReturn = {i \in DOMAIN f.probes : f.probes[i] = "pending"}]

\* A call of getInstalls(), lines 113-121, up to await Promise.all.
CallGetInstalls ==
  /\ find.pc \in {"idle", "done"}
  /\ \A i \in DOMAIN find.probes : find.probes[i] # "pending"
  /\ IF library.steamApps = "missing"
     THEN \* line 150
          find' = ReturnInstalls(IdleFind)
     ELSE IF library.steamApps = "corrupt"
     THEN \* line 118 throws, line 147
          find' = ReturnInstalls([IdleFind EXCEPT !.logged = TRUE])
     ELSE LET libraryfolders == Append(library.folders, STEAM_DATA_LOCATION)  \* 119-120
          IN find' = [IdleFind EXCEPT
                        !.pc = "awaitAll",
                        !.libraryfolders = libraryfolders,
                        !.probes = [i \in DOMAIN libraryfolders |->
                                      ProbeStart(library.roots[libraryfolders[i]])],
                        !.invalidInstalls = InvalidAfterMap(libraryfolders, library.roots)]
  /\ UNCHANGED library

\* Promise.all, line 121: rejected as soon as one promise is, resolved when
\* all are
AllRejected(probes) == \E i \in DOMAIN probes : probes[i] = "rejected"
AllResolved(probes) == \A i \in DOMAIN probes : probes[i] = "resolved"
PromiseAllSettled(probes) == AllRejected(probes) \/ AllResolved(probes)

\* await Promise.all settles, lines 121 and 146-153.
PromiseAllReturns ==
  /\ find.pc = "awaitAll"
  /\ PromiseAllSettled(find.probes)
  /\ find' = ReturnInstalls([find EXCEPT !.logged = AllRejected(find.probes)])
  /\ UNCHANGED library

\* getGameVersionFromExe, lines 52-55: the number after CL- in ProductVersion,
\* '0' without one; it throws when the executable cannot be read.
GameVersions == {"CL-1", "0"}

\* getGameVersionFromExe of probe i settles, lines 135-143.  The continuation
\* of getInstalls is a microtask: once Promise.all is settled it runs before
\* another read settles.
GameVersionReturns(i) ==
  /\ i \in DOMAIN find.probes
  /\ find.probes[i] = "pending"
  /\ ~(find.pc = "awaitAll" /\ PromiseAllSettled(find.probes))
  /\ \/ \E gameVersion \in GameVersions :
          find' = [find EXCEPT
                     !.probes[i] = "resolved",
                     !.installs = Append(@, [installLocation |->
                                               fullInstallPath(find.libraryfolders[i]),
                                             version |-> gameVersion])]
     \/ find' = [find EXCEPT !.probes[i] = "rejected"]
  /\ UNCHANGED library

FindOnly == UNCHANGED <<smlVars, patchVars, steamVars>>

----------------------------------------------------------------------------
(* Specifications *)

\* The version cache and the installer, with overlapping calls.
InitSML ==
  /\ cache = [n \in CacheKeys |-> [dir |-> FALSE, dll |-> Absent, pak |-> Absent]]
  /\ game = [loaders |-> FALSE, dll |-> Absent, pak |-> Absent]
  /\ task = [p \in Procs |-> IdleTask]
  /\ ret = NoReturn
  /\ resolved = {}
  /\ patchIn = Absent /\ patchRuns = <<>>
  /\ config = [u \in Users |-> [kind |-> "noApps", launchOptions |-> Absent]]
  /\ running = FALSE
  /\ setup = IdleSetup
  /\ library = EmptyLibrary
  /\ find = IdleFind

Spec == InitSML /\ [][NextSML]_vars

\* The version cache and the installer, with calls that do not overlap.
SeqSpec == InitSML /\ [][NextSeq]_vars

\* The launch-options patch applied to each input, and to its own result.
InitPatch ==
  /\ cache = [n \in CacheKeys |-> [dir |-> FALSE, dll |-> Absent, pak |-> Absent]]
  /\ game = [loaders |-> FALSE, dll |-> Absent, pak |-> Absent]
  /\ task = [p \in Procs |-> IdleTask]
  /\ ret = NoReturn
  /\ resolved = {}
  /\ patchIn \in LaunchOptionsInputs
  /\ patchRuns = <<>>
  /\ config = [u \in Users |-> [kind |-> "noApps", launchOptions |-> Absent]]
  /\ running = FALSE
  /\ setup = IdleSetup
  /\ library = EmptyLibrary
  /\ find = IdleFind

NextPatch ==
  \/ ApplyPatch /\ UNCHANGED <<smlVars, steamVars, findVars>>

PatchSpec == InitPatch /\ [][NextPatch]_vars

\* setupSteam on every combination of profiles, with Steam started and
\* closed at any time.
InitSteam ==
  /\ cache = [n \in CacheKeys |-> [dir |-> FALSE, dll |-> Absent, pak |-> Absent]]
  /\ game = [loaders |-> FALSE, dll |-> Absent, pak |-> Absent]
  /\ task = [p \in Procs |-> IdleTask]
  /\ ret = NoReturn
  /\ resolved = {}
  /\ patchIn = Absent /\ patchRuns = <<>>
  /\ config \in [Users -> ProfileConfigs]
  /\ running \in BOOLEAN
  /\ setup = IdleSetup
  /\ library = EmptyLibrary
  /\ find = IdleFind

SteamOnly == UNCHANGED <<smlVars, patchVars, findVars>>

NextSteam ==
  \/ CallSetupSteam /\ SteamOnly
  \/ ProcessProfile /\ SteamOnly
  \/ IsRunningReturns /\ SteamOnly
  \/ SteamStarts /\ SteamOnly
  \/ SteamCloses /\ SteamOnly

SteamSpec == InitSteam /\ [][NextSteam]_vars

\* getInstalls on every library.
InitFind ==
  /\ cache = [n \in CacheKeys |-> [dir |-> FALSE, dll |-> Absent, pak |-> Absent]]
  /\ game = [loaders |-> FALSE, dll |-> Absent, pak |-> Absent]
  /\ task = [p \in Procs |-> IdleTask]
  /\ ret = NoReturn
  /\ resolved = {}
  /\ patchIn = Absent /\ patchRuns = <<>>
  /\ config = [u \in Users |-> [kind |-> "noApps", launchOptions |-> Absent]]
  /\ running = FALSE
  /\ setup = IdleSetup
  /\ library \in Libraries
  /\ find = IdleFind

NextFind ==
  \/ CallGetInstalls /\ FindOnly
  \/ PromiseAllReturns /\ FindOnly
  \/ \E i \in 1..(MaxFolders + 1) : GameVersionReturns(i) /\ FindOnly

FindSpec == InitFind /\ [][NextFind]_vars

----------------------------------------------------------------------------
(* Claims about the version cache and the installer *)

Populating(p) == task[p].pc \in {"awaitPak", "awaitDLL"}
InVersionCache(p) == task[p].pc \in {"awaitInfo", "awaitPak", "awaitDLL"}
RejectedVersion(r) == r.op \in {"resolve", "install"} /\ coerce(r.version) = Null

C2_DirectoryImpliesDLL ==
  (\A p \in Procs : ~InVersionCache(p)) =>
     \A n \in CacheKeys : cache[n].dir => cache[n][SMLDLLFileName] # Absent

\* C3: two getSMLVersionCache calls for the same normalized version never
\* both download into that version's cache directory.
C3_AtMostOnePopulates ==
  \A p, q \in Procs :
     (p # q /\ Populating(p) /\ Populating(q))
        => validVersionOf[task[p].version] # validVersionOf[task[q].version]

\* C4: with calls that do not overlap, a getSMLVersionCache call made after some call for the same
\* normalized version returned successfully returns that version's
\* directory, and makes no metadata lookup and no download.
C4_CacheHit ==
  /\ \A p \in Procs :
       task[p].after => task[p].pc = "awaitCache" /\ ~task[p].looked /\ task[p].dl = {}
  /\ (ret.op \in {"resolve", "install"} /\ ret.after) => ~ret.looked /\ ret.dl = {}
  /\ (ret.op = "resolve" /\ ret.after) =>
       ret.result = Ok(validVersionOf[ret.version]) /\ ret.result.dir \in resolved

C4_Witness ==
  /\ ret.op = "resolve" /\ ret.after /\ ret.result.kind = "ok"
  /\ ret.version \notin Released

\* C5: with calls that do not overlap, a call whose pak download failed and
\* whose DLL download succeeded: getSMLVersionCache returns the version's
\* directory; installSML, unless a copy throws, puts the DLL of V in the game
\* directory, leaves the pak of the game directory as it was, and
\* getSMLVersion then reports V.
C5_PakOptional ==
  [][ (ret'.dl = {SMLPakFileName, SMLDLLFileName} /\ ret'.got = {SMLDLLFileName}) =>
        /\ ret'.version \in Released /\ coerce(ret'.version) # Null
        /\ ret'.op = "resolve" => ret'.result = Ok(validVersionOf[ret'.version])
        /\ ret'.op = "install" => ret'.result.kind \in {"ok", "CopyError"}
        /\ (ret'.op = "install" /\ ret'.result.kind = "ok") =>
             /\ ret'.copied = {SMLDLLFileName}
             /\ game'[SMLPakFileName] = game[SMLPakFileName]
             /\ getSMLVersion(game') = ret'.version ]_vars

C5_Witness ==
  /\ ret.op = "install" /\ ret.result.kind = "ok"
  /\ ret.dl = {SMLPakFileName, SMLDLLFileName} /\ ret.got = {SMLDLLFileName}
  /\ getSMLVersion(game) = ret.version

\* C6: an uninstallSML made in the step after an installSML returned normally
\* leaves getSMLVersion reporting absent, unless the deletion of the DLL
\* throws and uninstallSML fails with it; a pak in the cache entry or in the game directory makes no
\* difference.
C6_InstallThenUninstall ==
  (ret.op = "uninstall" /\ ret.afterInstall) =>
     \/ getSMLVersion(game) = Absent
     \/ ret.result.kind = "UnlinkError" /\ ret.removed = {}

C6_Witness ==
  /\ ret.op = "uninstall" /\ ret.afterInstall /\ ret.result.kind = "ok"
  /\ ret.removed = {SMLDLLFileName}
  /\ game[SMLPakFileName] = Absent

\* An installSML call is made in this step: it returns at once, or it
\* suspends at its first await.
InstallCalled ==
  \/ ret'.op = "install" /\ task' = task
  \/ \E p \in Procs : task[p].pc = "idle" /\ task'[p].op = "install"

\* C13: an installSML call made on a game directory in which getSMLVersion
\* reports a version returns normally in the step it is made, whatever its
\* version argument, leaves the game directory and the cache as they were,
\* and makes no metadata lookup and no download.
C13_InstalledNoOp ==
  [][ (InstallCalled /\ getSMLVersion(game) # Absent) =>
        /\ ret'.op = "install" /\ ret'.result = Ok(Null)
        /\ UNCHANGED <<cache, game, task, resolved>>
        /\ ~ret'.looked /\ ret'.dl = {} /\ ret'.copied = {} ]_vars

C13_Witness ==
  /\ ret.op = "install" /\ ret.installedBefore /\ ret.result.kind = "ok"
  /\ coerce(ret.version) # Null /\ ret.version \notin Released
  /\ getSMLVersion(game) \in Released
  /\ game[SMLPakFileName] = Absent
  /\ ~cache[validVersionOf[ret.version]].dir

\* C14: uninstallSML on a game directory without the DLL returns normally and
\* leaves the game directory as it was; on a game directory with a loader
\* installed it fails only when the deletion of a file that exists throws,
\* never because the pak is not there.
C14_UninstallGuarded ==
  [][ ret'.op = "uninstall" =>
        /\ getSMLVersion(game) = Absent => ret'.result = Ok(Null) /\ game' = game
        /\ ret'.result.kind \in {"ok", "UnlinkError"}
        /\ ret'.result.kind = "UnlinkError" =>
             \E file \in {SMLDLLFileName, SMLPakFileName} :
                game[file] # Absent /\ game'[file] = game[file]
        /\ (getSMLVersion(game) # Absent /\ game[SMLPakFileName] = Absent) =>
             \/ ret'.result.kind = "ok" /\ ret'.removed = {SMLDLLFileName}
             \/ ret'.result.kind = "UnlinkError" /\ ret'.removed = {} ]_vars

C14_Witness ==
  /\ ret.op = "uninstall" /\ ret.result.kind = "ok"
  /\ ret.installedBefore /\ ret.removed = {SMLDLLFileName}
  /\ ~ret.afterInstall
  /\ game.loaders /\ game[SMLDLLFileName] = Absent /\ game[SMLPakFileName] = Absent

\* C16: an installSML call whose DLL download failed fails with the download
\* error and copies nothing; and the game directory changes only in the step
\* in which installSML copies or uninstallSML deletes, so it is as it was
\* when the call was made, without a loaders directory if it had none.
C16_DownloadErrorPropagates ==
  [][ /\ ( /\ ret'.op = "install"
           /\ SMLDLLFileName \in ret'.dl /\ SMLDLLFileName \notin ret'.got ) =>
             /\ ret'.result = Thrown("DownloadError")
             /\ ret'.copied = {}
             /\ game' = game
      /\ game' # game =>
           \/ ret'.op = "uninstall"
           \/ ret'.op = "install" /\ \E p \in Procs : task[p].pc = "awaitCache" ]_vars

C16_Witness ==
  /\ ret.op = "install" /\ ret.result.kind = "DownloadError"
  /\ ret.dl = {SMLPakFileName, SMLDLLFileName} /\ ret.got = {SMLPakFileName}
  /\ ~game.loaders /\ game[SMLDLLFileName] = Absent /\ game[SMLPakFileName] = Absent

\* C19, as stated: whenever uninstallSML has returned normally, neither the
\* DLL nor the pak is in the game directory.
C19_AsStated ==
  (ret.op = "uninstall" /\ ret.result.kind = "ok") =>
     game[SMLDLLFileName] = Absent /\ game[SMLPakFileName] = Absent

\* C19, amended: whenever uninstallSML has returned normally, the DLL is not
\* in the game directory; the pak is not there either when a loader was
\* installed at the call.  A pak without a DLL, left by a call whose pak
\* deletion threw, stays.
C19_UninstallRemoves ==
  (ret.op = "uninstall" /\ ret.result.kind = "ok") =>
     /\ game[SMLDLLFileName] = Absent
     /\ ret.installedBefore => game[SMLPakFileName] = Absent
     /\ ~ret.installedBefore => ret.removed = {}

C19_Witness ==
  /\ ret.op = "uninstall" /\ ret.result.kind = "ok" /\ ~ret.installedBefore
  /\ game[SMLDLLFileName] = Absent /\ game[SMLPakFileName] # Absent

----------------------------------------------------------------------------
(* Claims about setupSteam and its launch-options patch *)

\* The override block of a launch-options value: the text between the first
\* WINEDLLOVERRIDES=\" and the next \".
HasBlock(lo) == ExecWineDllOverrides(lo).found
BlockOf(lo) == ExecWineDllOverrides(lo).group
BeforeBlock(lo) == SubSeq(lo, 1, IndexOf(lo, ExecWineDllOverrides(lo).all) - 1)
AfterBlock(lo) ==
  SubSeq(lo, IndexOf(lo, ExecWineDllOverrides(lo).all) + Len(ExecWineDllOverrides(lo).all),
         Len(lo))
Occurrences(s, token) == Cardinality({i \in 1..Len(s) : s[i] = token})
Conformant(lo) == HasBlock(lo) /\ Occurrences(BlockOf(lo), "R") = 1

HasGameEntry(c) == c.kind \in {"apps", "Apps", "both"}

\* C7: the config file changes only in the step in which the liveness check
\* of the profile reports that Steam is not running; a changed value always
\* leads to the liveness check; and when the check reports Steam running,
\* setupSteam fails with SetupError and the config file stays as it was.
C7_RunningGuard ==
  [][ /\ config' # config => ~running /\ setup.pc = "awaitIsRunning"
      /\ (setup.pc = "awaitIsRunning" /\ setup' # setup /\ running) =>
            setup'.result = "SetupError" /\ setup'.pc = "idle" /\ config' = config
      /\ ( /\ setup.pc = "profile" /\ setup' # setup
           /\ HasGameEntry(config[setup.user])
           /\ LaunchOptionsPatch(config[setup.user].launchOptions).launchOptions
                # config[setup.user].launchOptions ) =>
            setup'.pc = "awaitIsRunning" /\ config' = config ]_vars

C7_Witness ==
  /\ setup.pc = "idle" /\ setup.result = "SetupError" /\ running
  /\ setup.wrote = {1} /\ setup.checked = {1, 2}
  /\ ~Conformant(config[2].launchOptions)

\* C8: for a value whose block holds the required sub-value duplicated
\* adjacently, the patched value has a block in which the required sub-value
\* occurs once, with the text outside the block as it was.
C8_DuplicateCollapsed ==
  (Len(patchRuns) >= 1 /\ HasBlock(patchIn) /\ Includes(BlockOf(patchIn), RequiredTwice)) =>
     LET out == patchRuns[1].launchOptions IN
     /\ HasBlock(out)
     /\ Occurrences(BlockOf(out), "R") = 1
     /\ BeforeBlock(out) = BeforeBlock(patchIn)
     /\ AfterBlock(out) = AfterBlock(patchIn)

\* C9: patching the result of the patch gives that result again.
C9_Idempotent ==
  Len(patchRuns) >= 2 => patchRuns[2].launchOptions = patchRuns[1].launchOptions

FailingKinds == {"malformed", "noApps", "noGame"}

\* C15: processing a profile whose config cannot be read, is malformed or
\* lacks its keys logs the failure, changes no file and goes on to the next
\* profile (setupSteam returns normally after the last one); when the
\* liveness check of any profile reports Steam running, setupSteam fails
\* with SetupError, whatever failures were logged before; and a setupSteam
\* that has returned normally has logged every such profile.
C15_ProfileFailuresContained ==
  [][ /\ ( /\ setup.pc = "profile" /\ setup' # setup
           /\ config[setup.user].kind \in FailingKinds ) =>
             /\ setup'.logged = setup.logged \cup {setup.user}
             /\ config' = config
             /\ setup.user < NumUsers =>
                   setup'.pc = "profile" /\ setup'.user = setup.user + 1
             /\ setup.user = NumUsers => setup'.pc = "idle" /\ setup'.result = "ok"
      /\ (setup.pc = "awaitIsRunning" /\ setup' # setup /\ running) =>
             setup'.pc = "idle" /\ setup'.result = "SetupError"
      /\ (setup'.pc = "idle" /\ setup'.result = "ok") =>
             \A u \in Users : config'[u].kind \in FailingKinds => u \in setup'.logged
      /\ setup'.result \in {"none", "ok", "SetupError"} ]_vars

C15_Witness ==
  /\ setup.pc = "idle" /\ setup.result = "SetupError"
  /\ config[1].kind = "malformed" /\ 1 \in setup.logged
  /\ 2 \in setup.checked /\ setup.wrote = {}

\* C17: for a value with a block that does not contain the required
\* sub-value, the patched value has the block followed by ';' and the
\* required sub-value, with the text outside the block as it was; for a
\* non-empty value without a block, the patched value is the required block,
\* a space and the value.
C17_UnionOrPrepend ==
  (Len(patchRuns) >= 1 /\ Truthy(patchIn)) =>
     LET out == patchRuns[1].launchOptions IN
     IF HasBlock(patchIn)
     THEN ~Includes(BlockOf(patchIn), Required) =>
            /\ HasBlock(out)
            /\ BlockOf(out) = BlockOf(patchIn) \o <<";">> \o Required
            /\ BeforeBlock(out) = BeforeBlock(patchIn)
            /\ AfterBlock(out) = AfterBlock(patchIn)
     ELSE out = Opening \o Required \o <<"Q", " ">> \o patchIn

\* C10: processing a profile whose launch options are conformant changes no
\* config file, does not reach the liveness check and does not fail,
\* whether or not Steam is running.
C10_ConformantUntouched ==
  [][ ( /\ setup.pc = "profile" /\ setup' # setup
        /\ HasGameEntry(config[setup.user])
        /\ Conformant(config[setup.user].launchOptions) ) =>
          /\ config' = config
          /\ setup'.pc # "awaitIsRunning"
          /\ setup'.checked = setup.checked /\ setup'.wrote = setup.wrote
          /\ setup'.result # "SetupError"
          /\ setup'.logged = setup.logged ]_vars

C10_Witness ==
  /\ setup.pc = "idle" /\ setup.result = "ok" /\ running
  /\ \A u \in Users : HasGameEntry(config[u]) /\ Conformant(config[u].launchOptions)
  /\ setup.checked = {} /\ setup.wrote = {}

\* C18: every write of setupSteam stores a conformant value, and a
\* setupSteam call made when the call before it had returned normally makes
\* no liveness check and no write and does not fail with SetupError.
C18_SecondRunIsNoOp ==
  /\ \A u \in setup.wrote : Conformant(config[u].launchOptions)
  /\ setup.after =>
        setup.checked = {} /\ setup.wrote = {} /\ setup.result # "SetupError"

----------------------------------------------------------------------------
(* Claims about getInstalls *)

Range(q) == {q[i] : i \in DOMAIN q}
InstallLocations(installs) == {install.installLocation : install \in Range(installs)}
Probed(r) == r \in Range(find.libraryfolders)

\* C11: in the result of a getInstalls call, and in the two lists at any
\* time, a probed root whose manifest parses with an AppState and whose
\* executable is missing has its install path in invalidInstalls and not in
\* installs, and a probed root without a manifest file has it in neither;
\* this holds whatever the other roots hold.
C11_InvalidAndAbsentRoots ==
  find.pc \in {"awaitAll", "done"} =>
    \A r \in Roots :
       LET root == library.roots[r]
           path == fullInstallPath(r)
           lists == IF find.pc = "done" THEN {find.result, [installs |-> find.installs,
                                                            invalidInstalls |-> find.invalidInstalls]}
                    ELSE {[installs |-> find.installs,
                           invalidInstalls |-> find.invalidInstalls]}
       IN \A l \in lists :
            /\ (Probed(r) /\ root.manifest = "AppState" /\ ~root.exe) =>
                  /\ path \in Range(l.invalidInstalls)
                  /\ path \notin InstallLocations(l.installs)
            /\ (Probed(r) /\ root.manifest = "none") =>
                  /\ path \notin Range(l.invalidInstalls)
                  /\ path \notin InstallLocations(l.installs)

C11_Witness ==
  /\ find.pc = "done"
  /\ find.libraryfolders = <<"lib1", "lib2", STEAM_DATA_LOCATION>>
  /\ library.roots["lib1"] = [manifest |-> "AppState", exe |-> FALSE]
  /\ library.roots["lib2"] = [manifest |-> "none", exe |-> TRUE]
  /\ library.roots[STEAM_DATA_LOCATION] = [manifest |-> "AppState", exe |-> TRUE]
  /\ find.result.invalidInstalls = <<fullInstallPath("lib1")>>
  /\ InstallLocations(find.result.installs) = {fullInstallPath(STEAM_DATA_LOCATION)}

\* C12: when getInstalls returns, no probe is still awaiting, and the
\* returned installs hold the install path of every probed root with an
\* AppState and an executable whose own probe did not throw.
C12_ReturnsAfterEveryProbe ==
  find.pc = "done" =>
    /\ find.pendingAtReturn = {}
    /\ \A i \in DOMAIN find.libraryfolders :
         LET root == library.roots[find.libraryfolders[i]] IN
         (root.manifest = "AppState" /\ root.exe /\ find.probes[i] # "rejected") =>
            fullInstallPath(find.libraryfolders[i]) \in InstallLocations(find.result.installs)

\* C20: in the result of a getInstalls call no install path occurs twice in
\* installs and invalidInstalls taken together.
C20_NoDuplicatePaths ==
  find.pc = "done" =>
    LET paths == [i \in DOMAIN find.result.installs |->
                    find.result.installs[i].installLocation]
                 \o find.result.invalidInstalls
    IN \A i, j \in DOMAIN paths : paths[i] = paths[j] => i = j

====
